---- MODULE Spec2Model ----
(***************************************************************************)
(* Model of context_router.py: the hybrid logical clock (HLC), the bounded *)
(* vector clock (EfficientVectorClock) and the router (ContextRouter) that *)
(* owns one of each and feeds them from ingress_packet.                    *)
(*                                                                         *)
(* Physical times are counted in units of 10^9 ns (one second): the code   *)
(* only subtracts, compares and takes maxima of physical times, so every   *)
(* run of the model is a run of the code on multiples of 10^9 ns.          *)
(*                                                                         *)
(* A dict is a sequence of entries in insertion order, as CPython keeps    *)
(* it: sorted() is stable, so the order decides which of several equal     *)
(* counters _prune removes first.                                          *)
(***************************************************************************)
EXTENDS Integers, Sequences, FiniteSets, TLC

\* ---------------------------------------------------------------- constants

\* MAX_SKEW_NS = 5_000_000_000, in units of 10^9 ns.
MAX_SKEW_NS == 5

MAX_VECTOR_SIZE == 25

\* PRUNE_RATIO = 0.2, in percent.
PRUNE_RATIO == 20

\* ------------------------------------------------------------------- bounds

\* Largest reading of the monotonic time source.
MaxTime == 1

\* Largest logical counter a remote timestamp carries; the router stops
\* taking packets once its own logical counter has passed it.
MaxLogical == 2

\* The owner's counter is not driven past this value.
MaxCounter == 3

\* Threads that call ingress_packet on the one router at the same time.
NumThreads == 2

\* ---------------------------------------------------------------- dict model

Max2(a, b) == IF a >= b THEN a ELSE b

Max3(a, b, c) == Max2(a, Max2(b, c))

Abs(x) == IF x < 0 THEN -x ELSE x

\* the positions of node in d: one, or none
Where(d, node) == {i \in 1..Len(d) : d[i].node = node}

\* node in d
Has(d, node) == Where(d, node) # {}

\* d.get(node, default)
Get(d, node, default) ==
    LET w == Where(d, node)
    IN  IF w = {} THEN default ELSE d[CHOOSE i \in w : TRUE].counter

\* d[node] = counter : an existing key keeps its place, a new key goes last
SetItem(d, node, counter) ==
    LET w == Where(d, node)
    IN  IF w = {}
        THEN Append(d, [node |-> node, counter |-> counter])
        ELSE [d EXCEPT ![CHOOSE i \in w : TRUE].counter = counter]

\* del d[node]
DelItem(d, node) == SelectSeq(d, LAMBDA e : e.node # node)

\* The dict as a mapping, the insertion order forgotten (dict equality).
AsMap(d) == [n \in {d[i].node : i \in 1..Len(d)} |-> Get(d, n, 0)]

\* Rank in the descending order (sorted(..., reverse=True))
RankDescending(d, i) ==
    Cardinality({j \in 1..Len(d) :
        \/ d[j].counter > d[i].counter
        \/ (d[j].counter = d[i].counter /\ j < i)}) + 1

\* sorted(items, key=counter): position of entry i in the stable ascending order
Rank(d, i) ==
    Cardinality({j \in 1..Len(d) :
        \/ d[j].counter < d[i].counter
        \/ (d[j].counter = d[i].counter /\ j < i)}) + 1

sorted_nodes(d) ==
    LET rank == [i \in 1..Len(d) |-> Rank(d, i)]
    IN  [k \in 1..Len(d) |-> d[CHOOSE i \in 1..Len(d) : rank[i] = k]]

\* ------------------------------------------------------------------- HLC

\* HLC(physical, logical, node_id)
HLC(physical, logical, node) ==
    [physical |-> physical, logical |-> logical, node_id |-> node]

\* SkewViolation with the limit itself rejected (>= for >)
SkewViolationAtLimit(current_phys, remote) ==
    Abs(current_phys - remote.physical) >= MAX_SKEW_NS

\* SkewViolation without abs(): a remote clock ahead of the local one passes
SkewViolationOneSided(current_phys, remote) ==
    current_phys - remote.physical > MAX_SKEW_NS

\* abs(current_phys - remote.physical) > MAX_SKEW_NS
SkewViolation(current_phys, remote) ==
    Abs(current_phys - remote.physical) > MAX_SKEW_NS

\* update returning a timestamp of the remote node (remote.node_id for
\* self.node_id)
updateAdoptsOrigin(self, remote, current_phys) ==
    IF remote.kind = "phys"
    THEN [raised |-> TRUE, hlc |-> self]
    ELSE IF SkewViolation(current_phys, remote)
    THEN [raised |-> TRUE, hlc |-> self]
    ELSE LET phys == Max3(current_phys, remote.physical, self.physical)
             tie  == phys = self.physical /\ self.physical = remote.physical
         IN  IF tie /\ remote.kind = "log"
             THEN [raised |-> TRUE, hlc |-> self]
             ELSE [raised |-> FALSE,
                   hlc |-> HLC(phys,
                               IF tie THEN Max2(self.logical, remote.logical) + 1 ELSE 0,
                               remote.node_id)]

\* update with the tie decided on the local physical alone
updateTieOnLocal(self, remote, current_phys) ==
    IF remote.kind = "phys"
    THEN [raised |-> TRUE, hlc |-> self]
    ELSE IF SkewViolation(current_phys, remote)
    THEN [raised |-> TRUE, hlc |-> self]
    ELSE LET phys == Max3(current_phys, remote.physical, self.physical)
             tie  == phys = self.physical
         IN  IF tie /\ remote.kind = "log"
             THEN [raised |-> TRUE, hlc |-> self]
             ELSE [raised |-> FALSE,
                   hlc |-> HLC(phys,
                               IF tie THEN Max2(self.logical, remote.logical) + 1 ELSE 0,
                               self.node_id)]

\* HLC.update(remote) with the time source reading current_phys:
\* [raised, hlc]. A remote physical that is no number makes abs() raise, a
\* remote logical that is no number makes max() raise, in the tie branch only.
update(self, remote, current_phys) ==
    IF remote.kind = "phys"
    THEN [raised |-> TRUE, hlc |-> self]
    ELSE IF SkewViolation(current_phys, remote)
    THEN [raised |-> TRUE, hlc |-> self]
    ELSE LET phys == Max3(current_phys, remote.physical, self.physical)
             tie  == phys = self.physical /\ self.physical = remote.physical
         IN  IF tie /\ remote.kind = "log"
             THEN [raised |-> TRUE, hlc |-> self]
             ELSE [raised |-> FALSE,
                   hlc |-> HLC(phys,
                               IF tie THEN Max2(self.logical, remote.logical) + 1 ELSE 0,
                               self.node_id)]

\* (physical, logical) ordering of two timestamps: a <= b
HlcLeq(a, b) ==
    \/ a.physical < b.physical
    \/ (a.physical = b.physical /\ a.logical <= b.logical)

\* ------------------------------------------------- EfficientVectorClock

\* increment with the default of get() off by one
incrementFromOne(vector, local_node) ==
    SetItem(vector, local_node, Get(vector, local_node, 1) + 1)

\* increment(): vector[local_node] = vector.get(local_node, 0) + 1
increment(vector, local_node) ==
    SetItem(vector, local_node, Get(vector, local_node, 0) + 1)

\* cutoff = int(MAX_VECTOR_SIZE * PRUNE_RATIO)
cutoff == (MAX_VECTOR_SIZE * PRUNE_RATIO) \div 100

\* the loop of _prune without the test that spares local_node
RECURSIVE PruneLoopAny(_, _, _, _, _)
PruneLoopAny(vector, sn, k, pruned, local_node) ==
    IF k > Len(sn) \/ pruned >= cutoff
    THEN vector
    ELSE PruneLoopAny(DelItem(vector, sn[k].node), sn, k + 1, pruned + 1, local_node)

\* the loop of _prune over the sorted snapshot sn, from position k on
RECURSIVE PruneLoop(_, _, _, _, _)
PruneLoop(vector, sn, k, pruned, local_node) ==
    IF k > Len(sn) \/ pruned >= cutoff
    THEN vector
    ELSE IF sn[k].node # local_node
         THEN PruneLoop(DelItem(vector, sn[k].node), sn, k + 1, pruned + 1, local_node)
         ELSE PruneLoop(vector, sn, k + 1, pruned, local_node)

\* _prune()
prune(vector, local_node) ==
    PruneLoop(vector, sorted_nodes(vector), 1, 0, local_node)

\* the loop of merge adding the remote counter to the local one
RECURSIVE MergeLoopSum(_, _, _)
MergeLoopSum(vector, items, k) ==
    IF k > Len(items)
    THEN [vector |-> vector, raised |-> FALSE]
    ELSE IF ~items[k].valid
         THEN [vector |-> vector, raised |-> TRUE]
         ELSE MergeLoopSum(SetItem(vector, items[k].node,
                                   Get(vector, items[k].node, 0) + items[k].counter),
                           items, k + 1)

\* the loop of merge taking the remote counter whatever the local one is
RECURSIVE MergeLoopOverwrite(_, _, _)
MergeLoopOverwrite(vector, items, k) ==
    IF k > Len(items)
    THEN [vector |-> vector, raised |-> FALSE]
    ELSE IF ~items[k].valid
         THEN [vector |-> vector, raised |-> TRUE]
         ELSE MergeLoopOverwrite(SetItem(vector, items[k].node, items[k].counter),
                                 items, k + 1)

\* the loop of merge with >= for >: a counter of 0 is taken for a new node
RECURSIVE MergeLoopGeq(_, _, _)
MergeLoopGeq(vector, items, k) ==
    IF k > Len(items)
    THEN [vector |-> vector, raised |-> FALSE]
    ELSE IF ~items[k].valid
         THEN [vector |-> vector, raised |-> TRUE]
         ELSE IF items[k].counter >= Get(vector, items[k].node, 0)
              THEN MergeLoopGeq(SetItem(vector, items[k].node, items[k].counter), items, k + 1)
              ELSE MergeLoopGeq(vector, items, k + 1)

\* the loop of merge over other_vector.items(), from position k on; an entry
\* whose counter does not compare with an int makes the comparison raise and
\* leaves what the loop has done so far
RECURSIVE MergeLoop(_, _, _)
MergeLoop(vector, items, k) ==
    IF k > Len(items)
    THEN [vector |-> vector, raised |-> FALSE]
    ELSE IF ~items[k].valid
         THEN [vector |-> vector, raised |-> TRUE]
         ELSE IF items[k].counter > Get(vector, items[k].node, 0)
              THEN MergeLoop(SetItem(vector, items[k].node, items[k].counter), items, k + 1)
              ELSE MergeLoop(vector, items, k + 1)

\* merge(other_vector): [vector, raised]
merge(vector, local_node, other_vector) ==
    IF ~other_vector.isdict
    THEN [vector |-> vector, raised |-> TRUE]
    ELSE LET r == MergeLoop(vector, other_vector.items, 1)
         IN  IF r.raised
             THEN r
             ELSE IF Len(r.vector) > MAX_VECTOR_SIZE
                  THEN [vector |-> prune(r.vector, local_node), raised |-> FALSE]
                  ELSE r

\* lines 84-85 in the other order: increment, then merge
increment_merge(vector, local_node, remote_vc) ==
    merge(increment(vector, local_node), local_node, remote_vc)

\* lines 84-85 of ingress_packet: self.vc.merge(remote_vc), and when it has
\* not raised, self.vc.increment(): [vector, raised]
merge_increment(vector, local_node, remote_vc) ==
    LET m == merge(vector, local_node, remote_vc)
    IN  IF m.raised
        THEN m
        ELSE [vector |-> increment(m.vector, local_node), raised |-> FALSE]

\* ------------------------------------------------------------------ inputs

\* Node identifiers are numbers: 0 is this router's uuid4, the others are
\* remote nodes, 1 the sender of every packet.

\* {lo: base, lo+1: base+step, ...}, len entries in this insertion order
Range(lo, len, base, step) ==
    [i \in 1..len |-> [node |-> lo + i - 1, counter |-> base + step * (i - 1), valid |-> TRUE]]

Dict(items) == [isdict |-> TRUE, items |-> items]

\* remote_vc arguments that are dicts of integer counters
EmptyVC == Dict(Range(1, 0, 0, 0))                         \* {}

OwnerVC == Dict(Range(0, 1, MaxCounter, 0))                \* {owner: MaxCounter}

FullVC == Dict(Range(1, MAX_VECTOR_SIZE, 2, 1))            \* 25 remote nodes, 2..26

\* {n26: 1, owner: 1}: one more remote node, and an old count of the owner
ExtraVC ==
    Dict(<< [node |-> MAX_VECTOR_SIZE + 1, counter |-> 1, valid |-> TRUE],
            [node |-> 0, counter |-> 1, valid |-> TRUE] >>)

\* 26 remote nodes with the ascending counters 1..26
AscVC == Dict(Range(1, MAX_VECTOR_SIZE + 1, 1, 1))

\* {n27: 0}: a node the router has never heard of, with a counter of 0
ZeroVC == Dict(Range(MAX_VECTOR_SIZE + 2, 1, 0, 0))

GoodVCs == { EmptyVC, OwnerVC, FullVC, ExtraVC }

\* the maps of the eviction scenarios
EvictVCs == { AscVC, ExtraVC, ZeroVC }

\* remote_vc arguments the merge chokes on: None, and a dict whose second
\* counter is no number
NoneVC == [isdict |-> FALSE, items |-> << >>]

HalfVC ==
    Dict(<< [node |-> MAX_VECTOR_SIZE + 2, counter |-> 1, valid |-> TRUE],
            [node |-> MAX_VECTOR_SIZE + 3, counter |-> 0, valid |-> FALSE] >>)

BadVCs == { NoneVC, HalfVC }

RemoteVCs == GoodVCs \cup BadVCs

SmallVCs == { EmptyVC } \cup BadVCs

\* remote_hlc_tuple: kind "ok" is (int, int, uuid-string); "arity" does not
\* unpack into three, "uuid" has a string UUID() rejects, "phys" and "log"
\* have a physical / logical field that is no number
Tuple(kind, physical, logical) ==
    [kind |-> kind, physical |-> physical, logical |-> logical, node_id |-> 1]

\* remote physical times: around every reading of the time source, at the
\* skew limit on either side of it, and just past the limit
RemotePhysicals ==
    { -(MAX_SKEW_NS + 1), -MAX_SKEW_NS }
    \cup 0..MaxTime
    \cup { MaxTime + MAX_SKEW_NS, MaxTime + MAX_SKEW_NS + 1 }

RemoteTuples ==
    { Tuple("ok", p, l) : p \in RemotePhysicals, l \in 0..MaxLogical }
    \cup { Tuple(k, 0, 0) : k \in {"arity", "uuid", "phys"} }
    \cup { Tuple("log", p, 0) : p \in 0..MaxTime }

\* a timestamp the router accepts at every reading, and one it never accepts
FewTuples == { Tuple("ok", -1, 0), Tuple("ok", MaxTime + MAX_SKEW_NS + 1, 0) }

\* ------------------------------------------------------------------- state

VARIABLES
    node_id,    \* ContextRouter.node_id
    hlc,        \* ContextRouter.hlc
    vc,         \* ContextRouter.vc : [local_node, vector]
    clock,      \* the last reading of time.monotonic_ns()
    op,         \* the last call: its name,
    ret,        \*   what it returned ("none", "True", "False") or "raised",
    hlc0,       \*   the hlc before it,
    vector0,    \*   the vector before it,
    now,        \*   the time it sampled (-1: it sampled none),
    r_tuple,    \*   its remote_hlc_tuple argument,
    r_vc,       \*   its remote_vc / other_vector argument
    rejected,   \* some ingress_packet call so far has returned False
    pc,         \* per thread: the line of ingress_packet it is about to run
    frame,      \* per thread: the locals of its ingress_packet call
    seen,       \* what a reader of router.hlc and router.vc last saw
    heap,       \* the dict objects of the process, by address
    routers,    \* two more routers of the process: [node_id, hlc, vector],
                \*   vector the address of the dict of their vector clock
    call        \* the last ingress_packet call on one of them

\* the record of the last call
hist == << op, ret, hlc0, vector0, now, r_tuple, r_vc, rejected >>

\* the threads inside ingress_packet, and the reader
conc == << pc, frame, seen >>

\* the routers that share a process
two == << heap, routers, call >>

vars == << node_id, hlc, vc, clock, hist, conc, two >>

NoTuple == Tuple("none", 0, 0)

NoVC == Dict(<< >>)

Threads == 1..NumThreads

\* Two routers built in one process, the k-th with the node identifier k - 1.
RouterIds == {1, 2}

\* a default that is one dict object shared by every instance (vector = {}
\* evaluated once) instead of default_factory
shared_default(k) == 1

\* field(default_factory=dict): the k-th EfficientVectorClock gets a dict of
\* its own, at address k
default_factory(k) == k

\* dicts of the callers, passed as remote_vc: {n26: 1, owner: 1} and
\* {n1: 2, n2: 2}
CallerMaps == {3, 4}

Addresses == RouterIds \cup CallerMaps

CallerMap(a) ==
    IF a = 3
    THEN << [node |-> MAX_VECTOR_SIZE + 1, counter |-> 1], [node |-> 0, counter |-> 1] >>
    ELSE << [node |-> 1, counter |-> 2], [node |-> 2, counter |-> 2] >>

\* the dict at an address as a remote_vc argument
AsRemote(d) ==
    Dict([i \in 1..Len(d) |->
            [node |-> d[i].node, counter |-> d[i].counter, valid |-> TRUE]])

\* the locals of ingress_packet: remote_hlc_tuple, remote_vc, the value of
\* self.hlc.update(remote_hlc) before it is assigned, and the return value
Frame(remote_hlc_tuple, remote_vc, new_hlc, result) ==
    [remote_hlc_tuple |-> remote_hlc_tuple, remote_vc |-> remote_vc,
     new_hlc |-> new_hlc, result |-> result]

NoFrame == Frame(NoTuple, NoVC, HLC(0, 0, 0), "none")

\* ContextRouter(): __post_init__ samples the clock and builds both clocks.
\* The origin of the monotonic clock is arbitrary: the router is built at
\* reading 0, and remote times are taken on either side of it.
Init ==
    /\ node_id = 0
    /\ clock = 0
    /\ hlc = HLC(clock, 0, node_id)
    /\ vc = [local_node |-> node_id, vector |-> << >>]
    /\ op = "init"
    /\ ret = "none"
    /\ hlc0 = hlc
    /\ vector0 = << >>
    /\ now = clock
    /\ r_tuple = NoTuple
    /\ r_vc = NoVC
    /\ rejected = FALSE
    /\ pc = [t \in Threads |-> "idle"]
    /\ frame = [t \in Threads |-> NoFrame]
    /\ seen = [hlc |-> hlc, vector |-> << >>, midway |-> {}]
    /\ heap = [a \in Addresses |->
                 IF a \in CallerMaps THEN CallerMap(a) ELSE << >>]
    /\ routers = [k \in RouterIds |->
                    [node_id |-> k - 1, hlc |-> HLC(clock, 0, k - 1),
                     vector |-> default_factory(k)]]
    /\ call = [router |-> 0, ret |-> "none", arg |-> 0,
               heap0 |-> heap, routers0 |-> routers]

\* the model stops driving a counter that has reached its bound
CounterWithinBound == Get(vc.vector, vc.local_node, 0) < MaxCounter

LogicalWithinBound == hlc.logical <= MaxLogical

\* router.vc.increment()
Increment ==
    /\ CounterWithinBound
    /\ vc' = [vc EXCEPT !.vector = increment(vc.vector, vc.local_node)]
    /\ op' = "increment"
    /\ ret' = "none"
    /\ hlc0' = hlc
    /\ vector0' = vc.vector
    /\ now' = -1
    /\ r_tuple' = NoTuple
    /\ r_vc' = NoVC
    /\ UNCHANGED << two, node_id, hlc, clock, rejected, conc >>

\* router.vc.merge(other_vector)
Merge(VCs) ==
    \E other_vector \in VCs :
        LET m == merge(vc.vector, vc.local_node, other_vector)
        IN  /\ vc' = [vc EXCEPT !.vector = m.vector]
            /\ op' = "merge"
            /\ ret' = IF m.raised THEN "raised" ELSE "none"
            /\ hlc0' = hlc
            /\ vector0' = vc.vector
            /\ now' = -1
            /\ r_tuple' = NoTuple
            /\ r_vc' = other_vector
            /\ UNCHANGED << two, node_id, hlc, clock, rejected, conc >>

\* an except clause that lets the exception out to the caller
PacketRaised == "raised"

\* except Exception: logging.error(...); return False
PacketRejected == "False"

\* router.ingress_packet(payload, remote_hlc_tuple, remote_vc), the time
\* source reading current_phys when update samples it
IngressPacket(Tuples, VCs) ==
    \E remote_hlc_tuple \in Tuples, remote_vc \in VCs,
       current_phys \in clock..MaxTime :
        LET parsed  == remote_hlc_tuple.kind \notin {"arity", "uuid"}
            u       == update(hlc, remote_hlc_tuple, current_phys)
            m       == merge_increment(vc.vector, vc.local_node, remote_vc)
        IN  /\ CounterWithinBound
            /\ LogicalWithinBound
            /\ op' = "ingress_packet"
            /\ hlc0' = hlc
            /\ vector0' = vc.vector
            /\ r_tuple' = remote_hlc_tuple
            /\ r_vc' = remote_vc
            /\ UNCHANGED node_id
            /\ IF ~parsed
               THEN /\ ret' = PacketRejected
                    /\ now' = -1
                    /\ UNCHANGED << hlc, vc, clock >>
               ELSE /\ now' = current_phys
                    /\ clock' = current_phys
                    /\ IF u.raised
                       THEN /\ ret' = PacketRejected
                            /\ UNCHANGED << hlc, vc >>
                       ELSE /\ hlc' = u.hlc
                            /\ vc' = [vc EXCEPT !.vector = m.vector]
                            /\ ret' = IF m.raised THEN PacketRejected ELSE "True"
            /\ rejected' = (rejected \/ ret' # "True")
            /\ UNCHANGED << conc, two >>

\* The router fed every shape of remote timestamp, with small vector maps.
Next == Increment \/ Merge(SmallVCs) \/ IngressPacket(RemoteTuples, SmallVCs)

Spec == Init /\ [][Next]_vars

\* The router fed the well-formed vector maps, with an accepted and a skewed
\* timestamp.
NextVC == Increment \/ Merge(GoodVCs) \/ IngressPacket(FewTuples, GoodVCs)

SpecVC == Init /\ [][NextVC]_vars

\* The router fed the maps of the eviction scenarios.
NextEvict == Increment \/ Merge(EvictVCs) \/ IngressPacket(FewTuples, EvictVCs)

SpecEvict == Init /\ [][NextEvict]_vars

\* ----------------------------------------------- two routers in one process

\* the timestamps of their packets: accepted, skewed, and one that does not
\* parse
TwoTuples == FewTuples \cup { Tuple("arity", 0, 0) }

\* routers[k].ingress_packet(payload, remote_hlc_tuple, remote_vc), remote_vc
\* the dict at address arg: a caller's dict, or the vector of the other router
IngressOn(k) ==
    \E remote_hlc_tuple \in TwoTuples, arg \in Addresses \ {routers[k].vector},
       current_phys \in clock..MaxTime :
        LET self   == routers[k]
            parsed == remote_hlc_tuple.kind \notin {"arity", "uuid"}
            u      == update(self.hlc, remote_hlc_tuple, current_phys)
            m      == merge(heap[self.vector], self.node_id, AsRemote(heap[arg]))
            accept == parsed /\ ~u.raised /\ ~m.raised
        IN  /\ Get(heap[self.vector], self.node_id, 0) < MaxCounter
            /\ clock' = IF parsed THEN current_phys ELSE clock
            /\ routers' = IF parsed /\ ~u.raised
                          THEN [routers EXCEPT ![k].hlc = u.hlc]
                          ELSE routers
            /\ heap' = IF parsed /\ ~u.raised
                       THEN [heap EXCEPT ![self.vector] =
                               IF m.raised THEN m.vector
                               ELSE increment(m.vector, self.node_id)]
                       ELSE heap
            /\ call' = [router |-> k, ret |-> IF accept THEN "True" ELSE PacketRejected,
                        arg |-> arg, heap0 |-> heap, routers0 |-> routers]
            /\ UNCHANGED << node_id, hlc, vc, hist, conc >>

NextTwo == \E k \in RouterIds : IngressOn(k)

SpecTwo == Init /\ [][NextTwo]_vars

\* ------------------------------------------------ ingress_packet, by threads
\* The same method run by several threads of one process. ingress_packet
\* takes no lock, so a thread may be preempted between any two of its
\* statements; each statement is taken as one step here (the interpreter
\* may switch threads inside line 84 too, which only adds interleavings).

\* the packets the threads bring
ThreadTuples == FewTuples \cup { Tuple("uuid", 0, 0) }

ThreadVCs == { EmptyVC, ExtraVC, NoneVC }

\* thread t calls router.ingress_packet(payload, remote_hlc_tuple, remote_vc)
Call(t) ==
    /\ pc[t] = "idle"
    /\ CounterWithinBound
    /\ \E remote_hlc_tuple \in ThreadTuples, remote_vc \in ThreadVCs :
          frame' = [frame EXCEPT ![t] =
                      Frame(remote_hlc_tuple, remote_vc, hlc, "none")]
    /\ pc' = [pc EXCEPT ![t] = "81"]
    /\ UNCHANGED << two, node_id, hlc, vc, clock, hist, seen >>

\* lines 81-82: unpack the tuple, build the remote HLC
Parse(t) ==
    /\ pc[t] = "81"
    /\ IF frame[t].remote_hlc_tuple.kind \in {"arity", "uuid"}
       THEN /\ pc' = [pc EXCEPT ![t] = "idle"]
            /\ frame' = [frame EXCEPT ![t].result = PacketRejected]
       ELSE /\ pc' = [pc EXCEPT ![t] = "83"]
            /\ UNCHANGED frame
    /\ UNCHANGED << two, node_id, hlc, vc, clock, hist, seen >>

\* line 83, right-hand side: self.hlc.update(remote_hlc) reads self.hlc and
\* the time source
UpdateCall(t) ==
    /\ pc[t] = "83"
    /\ \E current_phys \in clock..MaxTime :
          LET u == update(hlc, frame[t].remote_hlc_tuple, current_phys)
          IN  /\ clock' = current_phys
              /\ IF u.raised
                 THEN /\ pc' = [pc EXCEPT ![t] = "idle"]
                      /\ frame' = [frame EXCEPT ![t].result = PacketRejected]
                 ELSE /\ pc' = [pc EXCEPT ![t] = "83="]
                      /\ frame' = [frame EXCEPT ![t].new_hlc = u.hlc]
    /\ UNCHANGED << two, node_id, hlc, vc, hist, seen >>

\* line 83, the assignment: self.hlc = ...
UpdateStore(t) ==
    /\ pc[t] = "83="
    /\ hlc' = frame[t].new_hlc
    /\ pc' = [pc EXCEPT ![t] = "84"]
    /\ UNCHANGED << two, node_id, vc, clock, hist, frame, seen >>

\* line 84: self.vc.merge(remote_vc)
MergeCall(t) ==
    /\ pc[t] = "84"
    /\ LET m == merge(vc.vector, vc.local_node, frame[t].remote_vc)
       IN  /\ vc' = [vc EXCEPT !.vector = m.vector]
           /\ IF m.raised
              THEN /\ pc' = [pc EXCEPT ![t] = "idle"]
                   /\ frame' = [frame EXCEPT ![t].result = PacketRejected]
              ELSE /\ pc' = [pc EXCEPT ![t] = "85"]
                   /\ UNCHANGED frame
    /\ UNCHANGED << two, node_id, hlc, clock, hist, seen >>

\* lines 85-86: self.vc.increment(); return True
IncrementCall(t) ==
    /\ pc[t] = "85"
    /\ vc' = [vc EXCEPT !.vector = increment(vc.vector, vc.local_node)]
    /\ pc' = [pc EXCEPT ![t] = "idle"]
    /\ frame' = [frame EXCEPT ![t].result = "True"]
    /\ UNCHANGED << two, node_id, hlc, clock, hist, seen >>

\* the threads that have assigned self.hlc and not yet finished lines 84-85
Midway == {t \in Threads : pc[t] \in {"84", "85"}}

\* a reader thread reads router.hlc and router.vc.vector
Read ==
    /\ seen' = [hlc |-> hlc, vector |-> vc.vector, midway |-> Midway]
    /\ UNCHANGED << two, node_id, hlc, vc, clock, hist, pc, frame >>

NextThreads ==
    \/ \E t \in Threads :
          \/ Call(t)
          \/ Parse(t)
          \/ UpdateCall(t)
          \/ UpdateStore(t)
          \/ MergeCall(t)
          \/ IncrementCall(t)
    \/ Read

SpecThreads == Init /\ [][NextThreads]_vars

\* ------------------------------------------------------------------ claims

\* the last call was ingress_packet with a (int, int, uuid-string) tuple
IngressOk == op = "ingress_packet" /\ r_tuple.kind = "ok"

\* ... whose physical time is within MAX_SKEW_NS of the sampled time
WithinSkew == Abs(now - r_tuple.physical) <= MAX_SKEW_NS

\* C1: over any ingress_packet call the router's hybrid timestamp does not
\* decrease in the (physical, logical) ordering: the timestamp held after the
\* call is not less than the one held before it.
C1_LocalMonotonicity ==
    op = "ingress_packet" => HlcLeq(hlc0, hlc)

\* C2: whenever ingress_packet returns False, whatever the cause, the hybrid
\* timestamp and the vector counter map are what they were before the call.
C2_RejectionLeavesState ==
    (op = "ingress_packet" /\ ret = "False")
        => (hlc = hlc0 /\ AsMap(vc.vector) = AsMap(vector0))

\* C3: the hybrid update succeeds exactly when |now - remote.physical| <=
\* MAX_SKEW_NS, the limit itself accepted: then the stored physical is the
\* maximum of now, remote.physical and local.physical (and the packet is
\* accepted when its vector map is well-formed); otherwise the packet is
\* rejected and the timestamp is not replaced.
C3_SkewRule ==
    IngressOk =>
        IF WithinSkew
        THEN /\ hlc.physical = Max3(now, r_tuple.physical, hlc0.physical)
             /\ (r_vc \in GoodVCs => ret = "True")
        ELSE /\ ret = "False"
             /\ hlc = hlc0

\* a packet accepted with its physical time exactly MAX_SKEW_NS ahead of the
\* sampled time, which becomes the router's physical time
C3_Witness ==
    /\ IngressOk
    /\ ret = "True"
    /\ r_tuple.physical - now = MAX_SKEW_NS
    /\ hlc.physical = r_tuple.physical
    /\ hlc0.physical < hlc.physical

\* C4: a well-formed packet whose physical time is more than MAX_SKEW_NS away
\* from the sampled time is rejected: ingress_packet returns False, the
\* hybrid timestamp is unchanged and the vector map is neither merged nor
\* incremented.
C4_SkewRejection ==
    (IngressOk /\ ~WithinSkew)
        => (ret = "False" /\ hlc = hlc0 /\ vc.vector = vector0)

\* a skewed packet carrying a vector map whose first entry a merge would have
\* taken
C4_Witness ==
    /\ IngressOk
    /\ ~WithinSkew
    /\ r_vc = HalfVC
    /\ MergeLoop(vector0, r_vc.items, 1).vector # vector0
    /\ ret = "False"

\* C5: after a successful hybrid update, if the resulting physical equals both
\* local.physical and remote.physical the resulting logical is
\* max(local.logical, remote.logical) + 1; in every other case it is 0.
C5_TieBreak ==
    (IngressOk /\ WithinSkew) =>
        hlc.logical =
            IF hlc.physical = hlc0.physical /\ hlc.physical = r_tuple.physical
            THEN Max2(hlc0.logical, r_tuple.logical) + 1
            ELSE 0

\* a tie on the physical time in which the remote logical is the larger one:
\* local {p, l}, remote {p, l' > l}, now <= p gives {p, l' + 1}
C5_Witness ==
    /\ IngressOk
    /\ ret = "True"
    /\ hlc0.physical = r_tuple.physical
    /\ now <= hlc0.physical
    /\ r_tuple.logical > hlc0.logical
    /\ hlc = HLC(hlc0.physical, r_tuple.logical + 1, node_id)

\* the entries of vector0 and other_vector together, before any eviction
Merged(vector, other_vector) == MergeLoop(vector, other_vector.items, 1).vector

\* merging other_vector into vector makes merge call _prune
Evicts(vector, other_vector) ==
    /\ other_vector.isdict
    /\ ~MergeLoop(vector, other_vector.items, 1).raised
    /\ Len(Merged(vector, other_vector)) > MAX_VECTOR_SIZE

\* the last call was a vc.merge that returned
MergeDone == op = "merge" /\ ret = "none"

\* C6: in every reachable state the vector counter map holds at most
\* MAX_VECTOR_SIZE entries.
C6_Capacity ==
    Len(vc.vector) <= MAX_VECTOR_SIZE

\* C7: once the owner's identifier is a key of the counter map it remains a
\* key after every merge, prune, increment and ingress_packet.
C7_OwnerNeverEvicted ==
    Has(vector0, node_id) => Has(vc.vector, node_id)

\* a merge that evicted cutoff entries while the owner's counter was strictly
\* the lowest of the map, the owner still a key afterwards
C7_Witness ==
    /\ op \in {"merge", "ingress_packet"}
    /\ Has(vector0, node_id)
    /\ Evicts(vector0, r_vc)
    /\ \A i \in 1..Len(Merged(vector0, r_vc)) :
          Merged(vector0, r_vc)[i].node # node_id
            => Merged(vector0, r_vc)[i].counter > Get(vector0, node_id, 0)
    /\ Has(vc.vector, node_id)
    /\ \E i \in 1..Len(Merged(vector0, r_vc)) :
          ~Has(vc.vector, Merged(vector0, r_vc)[i].node)

\* C8: the owner's counter (0 when absent) never decreases, and increment()
\* raises it by exactly 1 and leaves every other entry as it was.
C8_OwnerCounterIncreases ==
    /\ Get(vc.vector, node_id, 0) >= Get(vector0, node_id, 0)
    /\ op = "increment" =>
          AsMap(vc.vector) =
              [n \in {vector0[i].node : i \in 1..Len(vector0)} \cup {node_id} |->
                  IF n = node_id THEN Get(vector0, n, 0) + 1 ELSE Get(vector0, n, 0)]

\* the third of three increments from the empty map: {owner: 3}
C8_Witness ==
    /\ op = "increment"
    /\ vector0 = << [node |-> node_id, counter |-> 2] >>
    /\ vc.vector = << [node |-> node_id, counter |-> 3] >>

\* C9 as stated: merging the same remote map a second time leaves the
\* counter map as the first merge left it, eviction or not.
C9_MergeIdempotent ==
    MergeDone =>
        AsMap(merge(vc.vector, vc.local_node, r_vc).vector) = AsMap(vc.vector)

\* C9 amended: when the merge evicts nothing (the map holds at most
\* MAX_VECTOR_SIZE entries once the remote entries are in), merging the same
\* remote map a second time leaves the counter map as the first merge left it.
C9_MergeIdempotentNoEviction ==
    (MergeDone /\ ~Evicts(vector0, r_vc)) =>
        AsMap(merge(vc.vector, vc.local_node, r_vc).vector) = AsMap(vc.vector)

\* a merge without eviction, into a map of several nodes, that raised the
\* counter of a node the map already held
C9_Witness ==
    /\ MergeDone
    /\ ~Evicts(vector0, r_vc)
    /\ Len(vector0) > 1
    /\ \E i \in 1..Len(vector0) :
          Get(vc.vector, vector0[i].node, 0) > vector0[i].counter

\* the counter map after merging a and then b into vector
MergeTwo(vector, a, b) ==
    merge(merge(vector, vc.local_node, a).vector, vc.local_node, b).vector

\* C10 as stated: for the map b just merged and every map a, merging a then b
\* gives the same counter map as merging b then a, eviction or not.
C10_MergeOrderIndependent ==
    MergeDone =>
        \A a \in GoodVCs :
            AsMap(MergeTwo(vector0, a, r_vc)) = AsMap(MergeTwo(vector0, r_vc, a))

\* neither a nor b, merged in either order into vector, calls _prune
NoEviction(vector, a, b) ==
    /\ ~Evicts(vector, a)
    /\ ~Evicts(vector, b)
    /\ ~Evicts(Merged(vector, a), b)
    /\ ~Evicts(Merged(vector, b), a)

\* C10 amended: for all maps a and b that evict nothing in either order,
\* merging a then b gives the same counter map as merging b then a.
C10_MergeOrderIndependentNoEviction ==
    MergeDone =>
        \A a \in GoodVCs :
            NoEviction(vector0, a, r_vc) =>
                AsMap(MergeTwo(vector0, a, r_vc)) = AsMap(MergeTwo(vector0, r_vc, a))

\* two maps that share a node with different counters, merged without
\* eviction: the two orders give the same map in a different insertion order
C10_Witness ==
    /\ MergeDone
    /\ \E a \in GoodVCs :
          /\ NoEviction(vector0, a, r_vc)
          /\ \E i \in 1..Len(a.items), j \in 1..Len(r_vc.items) :
                /\ a.items[i].node = r_vc.items[j].node
                /\ a.items[i].counter # r_vc.items[j].counter
          /\ MergeTwo(vector0, a, r_vc) # MergeTwo(vector0, r_vc, a)
          /\ vc.vector = merge(vector0, vc.local_node, r_vc).vector

\* the last call ran a merge to its end: vc.merge, or an accepted packet
MergeRan ==
    \/ MergeDone
    \/ (op = "ingress_packet" /\ ret = "True")

\* the positions of Merged(vector0, r_vc) that the last call evicted
Removed ==
    {i \in 1..Len(Merged(vector0, r_vc)) :
        ~Has(vc.vector, Merged(vector0, r_vc)[i].node)}

\* C11: after a merge that pushes the map above MAX_VECTOR_SIZE entries the
\* owner's entry is still present, the number of entries removed is 5 (or the
\* number of non-owner entries, if that is smaller), and the removed entries
\* are lowest-valued non-owner entries: none of them has a counter greater
\* than a surviving non-owner entry.
C11_Eviction ==
    (MergeRan /\ Evicts(vector0, r_vc)) =>
        LET mg == Merged(vector0, r_vc)
            others == {i \in 1..Len(mg) : mg[i].node # node_id}
        IN  /\ Has(mg, node_id) => Has(vc.vector, node_id)
            /\ Cardinality(Removed) =
                  IF Cardinality(others) < 5 THEN Cardinality(others) ELSE 5
            /\ Removed \subseteq others
            /\ \A i \in Removed : \A j \in others \ Removed :
                  mg[i].counter <= mg[j].counter

\* the scenario of the claim: 26 remote nodes with the counters 1..26 merged
\* into a map that holds the owner alone lose the nodes of counters 1..5 and
\* leave 21 entries plus the owner
C11_Witness ==
    /\ MergeDone
    /\ r_vc = AscVC
    /\ Len(vector0) = 1
    /\ Has(vector0, node_id)
    /\ Len(vc.vector) = 22
    /\ Has(vc.vector, node_id)
    /\ \A n \in 1..26 : Has(vc.vector, n) <=> n > 5

\* the nodes of a dict
Keys(d) == {d[i].node : i \in 1..Len(d)}

\* every local entry that the remote map does not name is as it was
OthersUnchanged ==
    \A n \in Keys(vector0) \ Keys(r_vc.items) :
        Has(vc.vector, n) /\ Get(vc.vector, n, 0) = Get(vector0, n, 0)

\* C12 as stated: when no eviction is triggered, after merge every node of
\* the remote map is a key of the local map with the value max(previous local
\* value, remote value), a node absent locally with exactly the remote value,
\* 0 included, and every local entry not in the remote map is unchanged.
C12_MergeAdoptsEveryNode ==
    (MergeDone /\ ~Evicts(vector0, r_vc)) =>
        /\ \A k \in 1..Len(r_vc.items) :
              /\ Has(vc.vector, r_vc.items[k].node)
              /\ Get(vc.vector, r_vc.items[k].node, 0) =
                    Max2(Get(vector0, r_vc.items[k].node, 0), r_vc.items[k].counter)
        /\ OthersUnchanged

\* C12 amended: when no eviction is triggered, after merge every node of the
\* remote map reads (0 when absent) max(previous local value, remote value);
\* it is a key of the local map exactly when it was one before or its remote
\* value is positive: a node absent locally with the remote value 0 is not
\* adopted. Every local entry not in the remote map is unchanged, and no
\* other key appears.
C12_MergeAdoptsPositive ==
    (MergeDone /\ ~Evicts(vector0, r_vc)) =>
        /\ \A k \in 1..Len(r_vc.items) :
              /\ Has(vc.vector, r_vc.items[k].node)
                    <=> (Has(vector0, r_vc.items[k].node) \/ r_vc.items[k].counter > 0)
              /\ Get(vc.vector, r_vc.items[k].node, 0) =
                    Max2(Get(vector0, r_vc.items[k].node, 0), r_vc.items[k].counter)
        /\ OthersUnchanged
        /\ Keys(vc.vector) \subseteq Keys(vector0) \cup Keys(r_vc.items)

\* {n26: 1, owner: 1} merged into a map where the owner counts more than 1
\* and n26 is unknown: n26 is adopted with 1, the owner keeps its counter
C12_Witness ==
    /\ MergeDone
    /\ ~Evicts(vector0, r_vc)
    /\ r_vc = ExtraVC
    /\ Get(vector0, node_id, 0) > 1
    /\ ~Has(vector0, MAX_VECTOR_SIZE + 1)
    /\ Get(vc.vector, MAX_VECTOR_SIZE + 1, 0) = 1
    /\ Get(vc.vector, node_id, 0) = Get(vector0, node_id, 0)

\* C13: ingress_packet never lets an error out: whatever the tuple and the
\* vector map are, the call returns True or False; and whatever calls were
\* rejected before, a well-formed packet whose physical time is within
\* MAX_SKEW_NS of the sampled time is accepted.
C13_NeverPropagates ==
    /\ op = "ingress_packet" => ret \in {"True", "False"}
    /\ (IngressOk /\ WithinSkew /\ r_vc \in GoodVCs) => ret = "True"

\* a packet accepted, and the hybrid clock replaced, by a router that has
\* rejected packets before and holds the valid half of a malformed map
C13_Witness ==
    /\ IngressOk
    /\ ret = "True"
    /\ rejected
    /\ Has(vector0, MAX_VECTOR_SIZE + 2)
    /\ hlc # hlc0

\* C14: with ingress_packet called by several threads on one router, and a
\* reader of its state running beside them, the hybrid update and the vector
\* merge and increment of a packet are seen as one unit: the reader never
\* sees the state of a call that has assigned the hybrid clock and not yet
\* merged and incremented the vector clock.
C14_AtomicIngress ==
    seen.midway = {}

\* C15: in every reachable state the origin of the router's hybrid timestamp
\* and the owner of its vector clock are the node identifier the router was
\* built with; a successful merge does not take the origin of the remote
\* timestamp.
C15_Ownership ==
    /\ node_id = 0
    /\ hlc.node_id = node_id
    /\ vc.local_node = node_id
    /\ (op = "ingress_packet" /\ ret = "True") => hlc.node_id # r_tuple.node_id

\* an accepted packet of another node whose physical time, ahead of the
\* router's, became the router's physical time
C15_Witness ==
    /\ IngressOk
    /\ ret = "True"
    /\ r_tuple.node_id # node_id
    /\ hlc.physical = r_tuple.physical
    /\ hlc.physical > hlc0.physical
    /\ hlc.physical > now
    /\ hlc.node_id = node_id

\* C16: an ingress_packet call on one router, accepted or rejected, leaves
\* the hybrid timestamp and the vector counter map of every other router as
\* they were and does not modify the map it was given; two routers never
\* share a counter map.
C16_Isolation ==
    /\ \A j, k \in RouterIds : j # k => routers[j].vector # routers[k].vector
    /\ call.router \in RouterIds =>
          /\ \A j \in RouterIds \ {call.router} :
                /\ routers[j] = call.routers0[j]
                /\ heap[routers[j].vector] = call.heap0[routers[j].vector]
          /\ heap[call.arg] = call.heap0[call.arg]

\* router 1 accepts a packet whose remote_vc is the vector of router 2, a
\* map that is not empty: router 1 takes its entries and counts the packet
C16_Witness ==
    /\ call.router = 1
    /\ call.ret = "True"
    /\ call.arg = routers[2].vector
    /\ Len(heap[call.arg]) > 1
    /\ \A i \in 1..Len(heap[call.arg]) :
          Has(heap[routers[1].vector], heap[call.arg][i].node)
    /\ heap[routers[1].vector] # call.heap0[routers[1].vector]
    /\ routers[1].hlc # call.routers0[1].hlc

\* C17: when ingress_packet returns True the hybrid timestamp is the hybrid
\* update of the previous one with the remote one, and the vector clock has
\* been merged first and incremented second: the owner's entry is present,
\* at least 1, and equal to max(previous counters[owner] or 0,
\* remote_vc[owner] or 0) + 1.
C17_AcceptedPostState ==
    (op = "ingress_packet" /\ ret = "True") =>
        /\ hlc = HLC(Max3(now, r_tuple.physical, hlc0.physical),
                     IF hlc0.physical = r_tuple.physical /\ now <= hlc0.physical
                     THEN Max2(hlc0.logical, r_tuple.logical) + 1
                     ELSE 0,
                     node_id)
        /\ Has(vc.vector, node_id)
        /\ Get(vc.vector, node_id, 0) >= 1
        /\ Get(vc.vector, node_id, 0) =
              Max2(Get(vector0, node_id, 0), Get(r_vc.items, node_id, 0)) + 1
        /\ \A n \in Keys(vc.vector) \ {node_id} :
              Get(vc.vector, n, 0) = Max2(Get(vector0, n, 0), Get(r_vc.items, n, 0))

\* an accepted packet whose vector map knows a higher count of the owner than
\* the owner itself: the owner's counter becomes that count plus 1
C17_Witness ==
    /\ op = "ingress_packet"
    /\ ret = "True"
    /\ Has(vector0, node_id)
    /\ Get(r_vc.items, node_id, 0) > Get(vector0, node_id, 0)
    /\ Get(vc.vector, node_id, 0) = Get(r_vc.items, node_id, 0) + 1
    /\ hlc # hlc0

\* C18: the logical counter is reset to 0 only when physical time strictly
\* advanced: after a successful hybrid update that took the otherwise branch
\* (logical = 0), the resulting physical is strictly greater than both
\* local.physical and remote.physical.
C18_ResetOnlyOnAdvance ==
    (IngressOk /\ WithinSkew
       /\ ~(hlc.physical = hlc0.physical /\ hlc.physical = r_tuple.physical)) =>
        /\ hlc.logical = 0
        /\ hlc.physical > hlc0.physical
        /\ hlc.physical > r_tuple.physical

\* C19: after every accepted ingress_packet the router's new hybrid timestamp
\* is strictly greater than the remote timestamp it merged, in the
\* (physical, logical) ordering.
C19_ReceiveAfterSend ==
    (IngressOk /\ ret = "True") =>
        (HlcLeq(r_tuple, hlc) /\ ~HlcLeq(hlc, r_tuple))

\* C20: in every reachable state the router's hybrid physical time exceeds
\* the last reading of the time source by no more than MAX_SKEW_NS.
C20_BoundedDrift ==
    hlc.physical - clock <= MAX_SKEW_NS

\* the router's physical time exactly MAX_SKEW_NS ahead of the sampled time,
\* taken from a packet it accepted, and kept over a later call at the same
\* or a later reading
C20_Witness ==
    /\ op = "ingress_packet"
    /\ now >= 0
    /\ hlc0.physical - now = MAX_SKEW_NS
    /\ hlc.physical = hlc0.physical
    /\ hlc.physical - clock = MAX_SKEW_NS

====
